---- MODULE Spec2Model ----
(***************************************************************************)
(* Model of src/main.py: a one-shot text analysis tool.                    *)
(*                                                                         *)
(* Characters are Unicode code points (integers), a text is a sequence of  *)
(* code points.  Sentiment values are exact rationals: the outputs of the  *)
(* external models are counted in tenths, a profile's score in twentieths  *)
(* (so that (polarity + compound) / 2 stays an integer).                   *)
(***************************************************************************)
EXTENDS Integers, Sequences, FiniteSets, TLC

VARIABLES
    disk,          \* file system: content of the analysed file
    png,           \* analysis_result.png: "absent" | "stale" | "fresh"
    csvWritten,    \* report.csv written in this run
    pdfFile,       \* report.pdf: "none" | "fresh" | "stale" (the image it embeds)
    pc,            \* position of the main program
    file_path,     \* main: file_path
    content,       \* analyze_file: content
    stats,         \* analyze_file: stats
    result,        \* main: result
    choice,        \* main: choice
    chartsCalled,  \* generate_charts was invoked in this run
    exportCalled,  \* format export_report was invoked with, or "none"
    diag,          \* messages printed by the except handlers
    trace,         \* components of analyze_file in the order they executed
    fn_text,       \* argument of a direct call of a pure function
    fn_called,     \* which pure function was called
    fn_lang,       \* language argument / detect_language result
    fn_tokens      \* tokenize_text result

vars == <<disk, png, csvWritten, pdfFile, pc, file_path, content, stats, result,
          choice, chartsCalled, exportCalled, diag, trace,
          fn_text, fn_called, fn_lang, fn_tokens>>

mainVars == <<disk, png, csvWritten, pdfFile, pc, file_path, content, stats,
              result, choice, chartsCalled, exportCalled, diag, trace>>

fnVars == <<fn_text, fn_called, fn_lang, fn_tokens>>

----------------------------------------------------------------------------
(* Bounds *)

MaxLen == 2        \* longest file content in the main program
MaxTextLen == 4    \* longest text handed directly to a pure function

(* Code points: newline, comma, 1, B, _, a, U+4E00, U+9FFF *)
Alphabet == {10, 44, 49, 66, 95, 97, 19968, 40959}

Texts(n) == UNION {[1..k -> Alphabet] : k \in 0..n}

----------------------------------------------------------------------------
(* Python values *)

None == [tag |-> "None"]

Truthy(v) == v # None

----------------------------------------------------------------------------
(* detect_language: re.search over the class [U+4E00 - U+9FA5] *)

CJK_LO == 19968
CJK_HI == 40869

InCJKClass(c) == c >= CJK_LO /\ c <= CJK_HI

detect_language(text) ==
    IF \E i \in 1..Len(text) : InCJKClass(text[i]) THEN "zh" ELSE "en"

----------------------------------------------------------------------------
(* tokenize_text *)

IsUpper(c) == c >= 65 /\ c <= 90
IsAsciiLetter(c) == IsUpper(c) \/ (c >= 97 /\ c <= 122)
IsDigit(c) == c >= 48 /\ c <= 57

(* \w of a str pattern: alphanumeric or underscore.  Above ASCII only the  *)
(* ideographs U+4E00..U+9FFF occur in the texts, and all are alphanumeric. *)
IsWordChar(c) ==
    IsAsciiLetter(c) \/ IsDigit(c) \/ c = 95 \/ (c >= 19968 /\ c <= 40959)

(* str.lower() on the code points of the texts *)
LowerChar(c) == IF IsUpper(c) THEN c + 32 ELSE c
Lower(text) == [i \in 1..Len(text) |-> LowerChar(text[i])]

(* \b before position p (1..Len+1): exactly one side is a word character *)
AtBoundary(s, p) ==
    LET before == p > 1 /\ IsWordChar(s[p - 1])
        after  == p <= Len(s) /\ IsWordChar(s[p])
    IN  before # after

(* ends e of a match of \b[a-zA-Z]+\b that starts at p *)
MatchEnds(s, p) ==
    {e \in p..Len(s) : /\ AtBoundary(s, p)
                       /\ \A k \in p..e : IsAsciiLetter(s[k])
                       /\ AtBoundary(s, e + 1)}

Max(S) == CHOOSE x \in S : \A y \in S : y <= x

(* re.findall: scan left to right, greedy match, resume after the match *)
RECURSIVE FindAll(_, _)
FindAll(s, p) ==
    IF p > Len(s) THEN <<>>
    ELSE IF MatchEnds(s, p) = {} THEN FindAll(s, p + 1)
    ELSE LET e == Max(MatchEnds(s, p))
         IN  <<SubSeq(s, p, e)>> \o FindAll(s, e + 1)

(* jieba.cut: the segmenter partitions the text into contiguous non-empty  *)
(* segments; which partition is the library's choice.                      *)
RECURSIVE Split(_, _, _)
Split(s, from, cuts) ==
    IF from > Len(s) THEN <<>>
    ELSE LET later == {c \in cuts : c >= from}
             to == IF later = {} THEN Len(s)
                   ELSE CHOOSE c \in later : \A d \in later : c <= d
         IN  <<SubSeq(s, from, to)>> \o Split(s, to + 1, cuts)

JiebaCut(text) == {Split(text, 1, cuts) : cuts \in SUBSET (1..(Len(text) - 1))}

(* variant: the text is matched without being lower-cased first *)
tokenize_text_NoLower(text, language) ==
    IF language = "zh" THEN JiebaCut(text)
    ELSE {FindAll(text, 1)}

(* the set of sequences tokenize_text can return *)
tokenize_text(text, language) ==
    IF language = "zh" THEN JiebaCut(text)
    ELSE {FindAll(Lower(text), 1)}

----------------------------------------------------------------------------
(* collections.Counter(words): one pass over the words *)

RECURSIVE CountInto(_, _, _)
CountInto(cnt, words, i) ==
    IF i > Len(words) THEN cnt
    ELSE LET w == words[i]
             next == IF w \in DOMAIN cnt
                     THEN [cnt EXCEPT ![w] = @ + 1]
                     ELSE [x \in DOMAIN cnt \cup {w} |->
                               IF x = w THEN 1 ELSE cnt[x]]
         IN  CountInto(next, words, i + 1)

(* variant: a repeated word is not counted again *)
Counter_Distinct(words) == [x \in {words[i] : i \in 1..Len(words)} |-> 1]

Counter(words) == CountInto([x \in {} |-> 0], words, 1)

----------------------------------------------------------------------------
(* analyze_file helpers *)

(* os.path.basename: the last component of the path *)
basename(path) == path[Len(path)]

(* bytes of one code point in UTF-8, os.path.getsize of the file *)
Utf8Len(c) == IF c < 128 THEN 1 ELSE IF c < 2048 THEN 2 ELSE IF c < 65536 THEN 3 ELSE 4

RECURSIVE getsize(_)
getsize(text) ==
    IF text = <<>> THEN 0 ELSE Utf8Len(Head(text)) + getsize(Tail(text))

(* str.splitlines: line boundaries; \r\n is one boundary; no empty last line *)
IsLineBreak(c) == c \in {10, 11, 12, 13, 28, 29, 30, 133, 8232, 8233}

LineCount(text) ==
    LET n == Len(text)
        breaks == {i \in 1..n : /\ IsLineBreak(text[i])
                                /\ ~(text[i] = 13 /\ i < n /\ text[i + 1] = 10)}
    IN  Cardinality(breaks) + (IF n > 0 /\ ~IsLineBreak(text[n]) THEN 1 ELSE 0)

----------------------------------------------------------------------------
(* analyze_sentiment *)

ScoreUnit == 20           \* a score of 1.0
DefaultScore == 10        \* 0.5
PosThreshold == 12        \* 0.6
NegThreshold == 8         \* 0.4

DefaultAnalysis ==
    [score |-> DefaultScore,
     polarity |-> "neutral",
     intensity |-> [positive |-> 0, negative |-> 0, neutral |-> 0],
     keywords |-> <<>>]

(* Results of the external models.  sentiments in [0,1], polarity and      *)
(* compound in [-1,1], pos/neg/neu proportions summing to 1, all in tenths *)
ZhSentiments == {0, 4, 6, 7, 10}
EnPolarities == {-10, 2, 6, 10}
EnCompounds == {-10, 2, 6, 10}
VaderProportions == {[pos |-> 5, neg |-> 0, neu |-> 5],
                     [pos |-> 0, neg |-> 3, neu |-> 7]}
ZhTags == {<<>>, << <<"w1", "a">>, <<"w2", "n">>, <<"w3", "ad">> >>}
EnTags == {<<>>, << <<"w1", "JJ">>, <<"w2", "NN">>, <<"w3", "JJR">> >>}

(* what the models of one language path answer in one call of analyze_sentiment *)
ModelOutputs(language) ==
    IF language = "zh"
    THEN [sentiments : ZhSentiments, tags : ZhTags]
    ELSE [polarity : EnPolarities, compound : EnCompounds,
          vader : VaderProportions, tags : EnTags]

(* The line of analyze_sentiment whose model call raises; 0: none raises *)
FailPoints(language) ==
    IF language = "zh" THEN {0, 57, 58, 60} ELSE {0, 64, 65, 66, 69, 76}

StartsWithJJ(tag) == tag \in {"JJ", "JJR", "JJS"}

Classify(a) ==
    IF a.score > PosThreshold THEN [a EXCEPT !.polarity = "positive"]
    ELSE IF a.score < NegThreshold THEN [a EXCEPT !.polarity = "negative"]
    ELSE a

(* variant: the polarity is classified as soon as the score is written *)
analyze_sentiment_ClassifyEarly(text, language, out, failAt) ==
    LET a0 == DefaultAnalysis
    IN  IF language = "zh"
        THEN LET a1 == Classify([a0 EXCEPT !.score = 2 * out.sentiments])
                 a2 == [a1 EXCEPT !.keywords =
                           SelectSeq(out.tags,
                                     LAMBDA t : t[2] \in {"a", "ad", "ag", "an"})]
             IN  IF failAt \in {57, 58} THEN [analysis |-> a0, error |-> TRUE]
                 ELSE IF failAt = 60 THEN [analysis |-> a1, error |-> TRUE]
                 ELSE [analysis |-> a2, error |-> FALSE]
        ELSE LET a1 == Classify([a0 EXCEPT !.score = out.polarity + out.compound])
                 a2 == [a1 EXCEPT !.intensity =
                           [positive |-> out.vader.pos,
                            negative |-> out.vader.neg,
                            neutral |-> out.vader.neu]]
                 a3 == [a2 EXCEPT !.keywords =
                           SelectSeq(out.tags, LAMBDA t : StartsWithJJ(t[2]))]
             IN  IF failAt \in {64, 65, 66, 69} THEN [analysis |-> a0, error |-> TRUE]
                 ELSE IF failAt = 76 THEN [analysis |-> a2, error |-> TRUE]
                 ELSE [analysis |-> a3, error |-> FALSE]

(* [analysis, error]: the dict returned and whether the except clause ran *)
analyze_sentiment(text, language, out, failAt) ==
    LET a0 == DefaultAnalysis
    IN  IF language = "zh"
        THEN LET a1 == [a0 EXCEPT !.score = 2 * out.sentiments]
                 a2 == [a1 EXCEPT !.keywords =
                           SelectSeq(out.tags,
                                     LAMBDA t : t[2] \in {"a", "ad", "ag", "an"})]
             IN  IF failAt \in {57, 58} THEN [analysis |-> a0, error |-> TRUE]
                 ELSE IF failAt = 60 THEN [analysis |-> a1, error |-> TRUE]
                 ELSE [analysis |-> Classify(a2), error |-> FALSE]
        ELSE LET a1 == [a0 EXCEPT !.score = out.polarity + out.compound]
                 a2 == [a1 EXCEPT !.intensity =
                           [positive |-> out.vader.pos,
                            negative |-> out.vader.neg,
                            neutral |-> out.vader.neu]]
                 a3 == [a2 EXCEPT !.keywords =
                           SelectSeq(out.tags, LAMBDA t : StartsWithJJ(t[2]))]
             IN  IF failAt \in {64, 65, 66, 69} THEN [analysis |-> a0, error |-> TRUE]
                 ELSE IF failAt = 76 THEN [analysis |-> a2, error |-> TRUE]
                 ELSE [analysis |-> Classify(a3), error |-> FALSE]

----------------------------------------------------------------------------
(* The file system the program runs against *)

GoodPath == <<"docs", "a.txt">>
Paths == {GoodPath, <<"missing.txt">>, <<"secret", "locked.txt">>, <<"latin1.txt">>}

(* what open(...).read() meets at a path other than GoodPath *)
Unreadable(p) ==
    IF p = <<"missing.txt">> THEN [kind |-> "FileNotFoundError"]
    ELSE IF p = <<"latin1.txt">> THEN [kind |-> "UnicodeDecodeError"]
    ELSE [kind |-> "PermissionError"]

Disks ==
    {[p \in Paths |-> IF p = GoodPath THEN [kind |-> "text", text |-> t]
                      ELSE Unreadable(p)] : t \in Texts(MaxLen)}

Init ==
    /\ disk \in Disks
    /\ png \in {"absent", "stale"}
    /\ csvWritten = FALSE
    /\ pdfFile = "none"
    /\ pc = "input"
    /\ file_path = <<>>
    /\ content = <<>>
    /\ stats = None
    /\ result = None
    /\ choice = ""
    /\ chartsCalled = FALSE
    /\ exportCalled = "none"
    /\ diag = <<>>
    /\ trace = <<>>
    /\ fn_text = <<>>
    /\ fn_called = "none"
    /\ fn_lang = ""
    /\ fn_tokens = <<>>

----------------------------------------------------------------------------
(* __main__ and analyze_file, one action per statement *)

(* file_path = input(...).strip(); result = analyze_file(file_path) *)
Main_Input ==
    /\ pc = "input"
    /\ \E p \in Paths : file_path' = p
    /\ pc' = "open"
    /\ UNCHANGED <<disk, png, csvWritten, pdfFile, content, stats, result, choice,
                   chartsCalled, exportCalled, diag, trace>>
    /\ UNCHANGED fnVars

(* except Exception of analyze_file: print, return None *)
AnalyzeFile_Except ==
    /\ diag' = Append(diag, "analysis_failed")
    /\ result' = None
    /\ pc' = "check"

(* with open(file_path, 'r', encoding='utf-8') as f: content = f.read() *)
AnalyzeFile_Read ==
    /\ pc = "open"
    /\ IF disk[file_path].kind = "text"
       THEN /\ content' = disk[file_path].text
            /\ trace' = Append(trace, "read")
            /\ pc' = "stats"
            /\ UNCHANGED <<diag, result>>
       ELSE /\ AnalyzeFile_Except
            /\ UNCHANGED <<content, trace>>
    /\ UNCHANGED <<disk, png, csvWritten, pdfFile, file_path, stats, choice,
                   chartsCalled, exportCalled>>
    /\ UNCHANGED fnVars

(* variant: the statistics are followed by the counts, words never filled *)
AnalyzeFile_Stats_SkipTokenize ==
    /\ pc = "stats"
    /\ stats' = [file_name |-> basename(file_path),
                 file_size |-> getsize(content),
                 char_count |-> Len(content),
                 line_count |-> LineCount(content),
                 language |-> detect_language(content),
                 words |-> <<>>,
                 sentiment |-> None]
    /\ trace' = trace \o <<"file_size", "char_count", "line_count", "detect_language">>
    /\ pc' = "word_count"
    /\ UNCHANGED <<disk, png, csvWritten, pdfFile, file_path, content, result, choice,
                   chartsCalled, exportCalled, diag>>
    /\ UNCHANGED fnVars

(* stats = {...}: the entries are evaluated in the order written;          *)
(* os.path.getsize raises when the file is gone by then                    *)
AnalyzeFile_Stats ==
    /\ pc = "stats"
    /\ \E sizeOk \in BOOLEAN :
          IF sizeOk
          THEN /\ stats' = [file_name |-> basename(file_path),
                            file_size |-> getsize(content),
                            char_count |-> Len(content),
                            line_count |-> LineCount(content),
                            language |-> detect_language(content),
                            words |-> <<>>,
                            sentiment |-> None]
               /\ trace' = trace \o <<"file_size", "char_count", "line_count",
                                      "detect_language">>
               /\ pc' = "tokenize"
               /\ UNCHANGED <<diag, result>>
          ELSE /\ AnalyzeFile_Except
               /\ UNCHANGED <<stats, trace>>
    /\ UNCHANGED <<disk, png, csvWritten, pdfFile, file_path, content, choice,
                   chartsCalled, exportCalled>>
    /\ UNCHANGED fnVars

(* stats['words'] = tokenize_text(content, stats['language']) *)
AnalyzeFile_Tokenize ==
    /\ pc = "tokenize"
    /\ \E ws \in tokenize_text(content, stats.language) :
          stats' = [stats EXCEPT !.words = ws]
    /\ trace' = Append(trace, "tokenize_text")
    /\ pc' = "word_count"
    /\ UNCHANGED <<disk, png, csvWritten, pdfFile, file_path, content, result, choice,
                   chartsCalled, exportCalled, diag>>
    /\ UNCHANGED fnVars

(* stats['word_count'] = len(stats['words']) *)
AnalyzeFile_WordCount ==
    /\ pc = "word_count"
    /\ stats' = [k \in DOMAIN stats \cup {"word_count"} |->
                    IF k = "word_count" THEN Len(stats.words) ELSE stats[k]]
    /\ trace' = Append(trace, "word_count")
    /\ pc' = "word_freq"
    /\ UNCHANGED <<disk, png, csvWritten, pdfFile, file_path, content, result, choice,
                   chartsCalled, exportCalled, diag>>
    /\ UNCHANGED fnVars

(* stats['word_freq'] = Counter(stats['words']) *)
AnalyzeFile_WordFreq ==
    /\ pc = "word_freq"
    /\ stats' = [k \in DOMAIN stats \cup {"word_freq"} |->
                    IF k = "word_freq" THEN Counter(stats.words) ELSE stats[k]]
    /\ trace' = Append(trace, "word_freq")
    /\ pc' = "sentiment"
    /\ UNCHANGED <<disk, png, csvWritten, pdfFile, file_path, content, result, choice,
                   chartsCalled, exportCalled, diag>>
    /\ UNCHANGED fnVars

(* stats['sentiment'] = analyze_sentiment(content, stats['language']) *)
AnalyzeFile_Sentiment ==
    /\ pc = "sentiment"
    /\ \E out \in ModelOutputs(stats.language), failAt \in FailPoints(stats.language) :
          LET r == analyze_sentiment(content, stats.language, out, failAt)
          IN  /\ stats' = [stats EXCEPT !.sentiment = r.analysis]
              /\ diag' = IF r.error THEN Append(diag, "sentiment_error") ELSE diag
    /\ trace' = Append(trace, "analyze_sentiment")
    /\ pc' = "return"
    /\ UNCHANGED <<disk, png, csvWritten, pdfFile, file_path, content, result, choice,
                   chartsCalled, exportCalled>>
    /\ UNCHANGED fnVars

(* return stats *)
AnalyzeFile_Return ==
    /\ pc = "return"
    /\ result' = stats
    /\ pc' = "check"
    /\ UNCHANGED <<disk, png, csvWritten, pdfFile, file_path, content, stats, choice,
                   chartsCalled, exportCalled, diag, trace>>
    /\ UNCHANGED fnVars

(* variant: the charts are generated whatever analyze_file returned *)
Main_CheckResult_NoGuard ==
    /\ pc = "check"
    /\ pc' = "charts"
    /\ UNCHANGED <<disk, png, csvWritten, pdfFile, file_path, content, stats, result,
                   choice, chartsCalled, exportCalled, diag, trace>>
    /\ UNCHANGED fnVars

(* if result: *)
Main_CheckResult ==
    /\ pc = "check"
    /\ pc' = IF Truthy(result) THEN "charts" ELSE "done"
    /\ UNCHANGED <<disk, png, csvWritten, pdfFile, file_path, content, stats, result,
                   choice, chartsCalled, exportCalled, diag, trace>>
    /\ UNCHANGED fnVars

(* generate_charts(result).  plt.pie of three zero proportions (the EN     *)
(* default intensity) is outside what the library documents: it saves the  *)
(* figure or raises, and an exception here ends the program.               *)
generate_charts ==
    /\ pc = "charts"
    /\ chartsCalled' = TRUE
    /\ IF ~Truthy(result) \/ result.word_count = 0
       THEN /\ pc' = "choice"
            /\ UNCHANGED png
       ELSE LET i == result.sentiment.intensity
                zeroPie == /\ result.language # "zh"
                           /\ i.positive + i.negative + i.neutral = 0
            IN  \E raised \in {FALSE, zeroPie} :
                   IF raised
                   THEN pc' = "crashed" /\ UNCHANGED png
                   ELSE pc' = "choice" /\ png' = "fresh"
    /\ UNCHANGED <<disk, csvWritten, pdfFile, file_path, content, stats, result,
                   choice, exportCalled, diag, trace>>
    /\ UNCHANGED fnVars

(* choice = input(...).lower(); if choice in ['csv', 'pdf']: *)
ChoiceInputs == {"csv", "PDF", "pdf", "skip"}
LowerChoice(c) == IF c = "PDF" THEN "pdf" ELSE c

Main_Choice ==
    /\ pc = "choice"
    /\ \E c \in ChoiceInputs :
          /\ choice' = LowerChoice(c)
          /\ pc' = IF choice' \in {"csv", "pdf"} THEN "export" ELSE "done"
    /\ UNCHANGED <<disk, png, csvWritten, pdfFile, file_path, content, stats, result,
                   chartsCalled, exportCalled, diag, trace>>
    /\ UNCHANGED fnVars

(* export_report(result, choice): pdf.drawImage('analysis_result.png')     *)
(* raises when the image is absent, before pdf.save()                      *)
export_report ==
    /\ pc = "export"
    /\ exportCalled' = choice
    /\ IF ~Truthy(result)
       THEN pc' = "done" /\ UNCHANGED <<csvWritten, pdfFile>>
       ELSE IF choice = "csv"
       THEN pc' = "done" /\ csvWritten' = TRUE /\ UNCHANGED pdfFile
       ELSE IF choice = "pdf"
       THEN IF png = "absent"
            THEN pc' = "crashed" /\ UNCHANGED <<csvWritten, pdfFile>>
            ELSE pc' = "done" /\ pdfFile' = png /\ UNCHANGED csvWritten
       ELSE pc' = "done" /\ UNCHANGED <<csvWritten, pdfFile>>
    /\ UNCHANGED <<disk, png, file_path, content, stats, result, choice,
                   chartsCalled, diag, trace>>
    /\ UNCHANGED fnVars

Next ==
    \/ Main_Input
    \/ AnalyzeFile_Read
    \/ AnalyzeFile_Stats
    \/ AnalyzeFile_Tokenize
    \/ AnalyzeFile_WordCount
    \/ AnalyzeFile_WordFreq
    \/ AnalyzeFile_Sentiment
    \/ AnalyzeFile_Return
    \/ Main_CheckResult
    \/ generate_charts
    \/ Main_Choice
    \/ export_report

Spec == Init /\ [][Next]_vars

----------------------------------------------------------------------------
(* Direct calls of the pure functions on every text up to MaxTextLen *)

FnInit ==
    /\ disk \in {d \in Disks : d[GoodPath].text = <<>>}
    /\ png = "absent"
    /\ csvWritten = FALSE
    /\ pdfFile = "none"
    /\ pc = "fn"
    /\ file_path = <<>>
    /\ content = <<>>
    /\ stats = None
    /\ result = None
    /\ choice = ""
    /\ chartsCalled = FALSE
    /\ exportCalled = "none"
    /\ diag = <<>>
    /\ trace = <<>>
    /\ fn_text \in Texts(MaxTextLen)
    /\ fn_called = "none"
    /\ fn_lang = ""
    /\ fn_tokens = <<>>

Call_detect_language ==
    /\ pc = "fn"
    /\ fn_called = "none"
    /\ fn_called' = "detect_language"
    /\ fn_lang' = detect_language(fn_text)
    /\ UNCHANGED <<fn_text, fn_tokens>>
    /\ UNCHANGED mainVars

Call_tokenize_text ==
    /\ pc = "fn"
    /\ fn_called = "none"
    /\ \E language \in {"zh", "en"} :
          /\ fn_lang' = language
          /\ \E ws \in tokenize_text(fn_text, language) : fn_tokens' = ws
    /\ fn_called' = "tokenize_text"
    /\ UNCHANGED fn_text
    /\ UNCHANGED mainVars

FnNext == Call_detect_language \/ Call_tokenize_text

FnSpec == FnInit /\ [][FnNext]_vars

----------------------------------------------------------------------------
(* Properties *)

Range(f) == {f[i] : i \in DOMAIN f}

SentimentDone == "analyze_sentiment" \in Range(trace)
SentimentFailed == "sentiment_error" \in Range(diag)
ReadFailed == pc # "input" /\ disk[file_path].kind # "text"

(* C1: whenever a model call inside analyze_sentiment raises, the profile  *)
(* it returns is exactly the default profile (score 0.5, neutral, zero     *)
(* intensity, no keywords).                                                *)
C1_FailureGivesDefault ==
    (SentimentDone /\ SentimentFailed) =>
        stats.sentiment = [score |-> ScoreUnit \div 2,
                           polarity |-> "neutral",
                           intensity |-> [positive |-> 0, negative |-> 0,
                                          neutral |-> 0],
                           keywords |-> <<>>]

(* C2: in every returned profile the polarity is decided by the score      *)
(* alone: above 0.6 positive, below 0.4 negative, otherwise neutral.       *)
C2_PolarityFromScore ==
    SentimentDone =>
        LET a == stats.sentiment
        IN  a.polarity = IF 5 * a.score > 3 * ScoreUnit THEN "positive"
                         ELSE IF 5 * a.score < 2 * ScoreUnit THEN "negative"
                         ELSE "neutral"

(* C3: in every returned profile 0 <= score <= 1, on both language paths.  *)
C3_ScoreInUnitInterval ==
    SentimentDone => (stats.sentiment.score >= 0 /\ stats.sentiment.score <= ScoreUnit)

(* C4: after a failed file read analyze_file returns None, neither         *)
(* generate_charts nor export_report is invoked and no chart or report is  *)
(* written in that run.                                                    *)
C4_ReadFailureStopsRun ==
    ReadFailed =>
        /\ result = None
        /\ ~chartsCalled
        /\ exportCalled = "none"
        /\ png # "fresh"
        /\ ~csvWritten
        /\ pdfFile = "none"

C4_Witness ==
    /\ ReadFailed
    /\ pc = "done"
    /\ "analysis_failed" \in Range(diag)

(* C5: whenever export_report is invoked with format pdf, generate_charts  *)
(* has written analysis_result.png earlier in the same run.                *)
C5_PdfAfterChart ==
    exportCalled = "pdf" => png = "fresh"

RECURSIVE SumCounts(_, _)
SumCounts(cnt, keys) ==
    IF keys = {} THEN 0
    ELSE LET k == CHOOSE x \in keys : TRUE
         IN  cnt[k] + SumCounts(cnt, keys \ {k})

(* C6: in every result of analyze_file word_count is the length of words,  *)
(* the counts of word_freq sum to word_count, and the keys of word_freq    *)
(* are exactly the distinct words.                                         *)
C6_CountsAgree ==
    Truthy(result) =>
        /\ result.word_count = Len(result.words)
        /\ SumCounts(result.word_freq, DOMAIN result.word_freq) = result.word_count
        /\ DOMAIN result.word_freq = Range(result.words)

C6_Witness ==
    /\ Truthy(result)
    /\ result.word_count >= 2
    /\ Cardinality(DOMAIN result.word_freq) < result.word_count

(* C7: detect_language returns zh exactly for the texts that hold a        *)
(* character of U+4E00..U+9FFF, and en for every other text.               *)
C7_DetectWholeBlock ==
    fn_called = "detect_language" =>
        (fn_lang = "zh" <=>
            \E i \in 1..Len(fn_text) : fn_text[i] >= 19968 /\ fn_text[i] <= 40959)

(* one step of the program, as C8 constrains it *)
C8_Step ==
    /\ (pc = "sentiment" /\ pc' # "sentiment" /\ Len(diag') > Len(diag)) =>
          /\ pc' = "return"
          /\ DOMAIN stats' = DOMAIN stats
          /\ \A k \in DOMAIN stats \ {"sentiment"} : stats'[k] = stats[k]
          /\ stats'.sentiment.polarity = "neutral"
    /\ (pc = "return" /\ pc' # "return" /\ SentimentFailed) =>
          /\ Truthy(result')
          /\ result' = stats
          /\ diag' = diag

(* C8: a failure inside the sentiment models does not abort analyze_file:  *)
(* the sentiment step changes no other field of stats, the polarity it     *)
(* leaves is neutral, and analyze_file goes on to return stats, not None.  *)
C8_FailureKeepsResult == [][C8_Step]_vars

C8_Witness ==
    /\ SentimentFailed
    /\ pc = "done"
    /\ Truthy(result)
    /\ result.word_count > 0
    /\ result.sentiment.score # ScoreUnit \div 2

(* maximal runs of ASCII letters of s, as <<first, last>> *)
LetterRuns(s) ==
    {r \in (1..Len(s)) \X (1..Len(s)) :
        /\ r[1] <= r[2]
        /\ \A k \in r[1]..r[2] : IsAsciiLetter(s[k])
        /\ (r[1] = 1 \/ ~IsAsciiLetter(s[r[1] - 1]))
        /\ (r[2] = Len(s) \/ ~IsAsciiLetter(s[r[2] + 1]))}

(* the runs of a set, as the sequence of their texts in document order *)
RECURSIVE InOrder(_, _)
InOrder(s, runs) ==
    IF runs = {} THEN <<>>
    ELSE LET first == CHOOSE r \in runs : \A q \in runs : r[1] <= q[1]
         IN  <<SubSeq(s, first[1], first[2])>> \o InOrder(s, runs \ {first})

NextTo(s, r, P(_)) ==
    \/ (r[1] > 1 /\ P(s[r[1] - 1]))
    \/ (r[2] < Len(s) /\ P(s[r[2] + 1]))

(* C9 as claimed: on the EN path tokenize_text returns, in order, the      *)
(* lower-cased maximal runs of ASCII letters, except the runs next to a    *)
(* digit; a run next to an underscore is a token.                          *)
C9_RunsNotNextToDigit ==
    (fn_called = "tokenize_text" /\ fn_lang = "en") =>
        fn_tokens = InOrder(Lower(fn_text),
                            {r \in LetterRuns(fn_text) : ~NextTo(fn_text, r, IsDigit)})

(* C9 amended: on the EN path tokenize_text returns, in order, the maximal *)
(* runs of ASCII letters of the lower-cased text that have no word         *)
(* character (letter, digit, underscore) next to them; the empty text      *)
(* gives the empty sequence.                                               *)
C9_RunsNotNextToWordChar ==
    (fn_called = "tokenize_text" /\ fn_lang = "en") =>
        LET s == Lower(fn_text)
        IN  /\ fn_tokens = InOrder(s, {r \in LetterRuns(s) : ~NextTo(s, r, IsWordChar)})
            /\ (fn_text = <<>> => fn_tokens = <<>>)

C9_Witness ==
    /\ fn_called = "tokenize_text"
    /\ fn_lang = "en"
    /\ Len(fn_tokens) >= 1
    /\ \E i \in 1..(Len(fn_text) - 1) :
          IsAsciiLetter(fn_text[i]) /\ fn_text[i + 1] = 95

Before(a, b) ==
    \A i \in 1..Len(trace) : trace[i] = b => \E j \in 1..(i - 1) : trace[j] = a

(* C10 as claimed: no aggregator output is computed before language        *)
(* detection and tokenization, the sentiment engine runs after             *)
(* tokenization, and after a failed read no component executes.            *)
C10_AggregatorAfterTokenizer ==
    /\ \A out \in {"file_size", "char_count", "line_count", "word_count", "word_freq"} :
          Before("detect_language", out) /\ Before("tokenize_text", out)
    /\ Before("tokenize_text", "analyze_sentiment")
    /\ ReadFailed => trace = <<>>

(* C10 amended: word_count and word_freq are computed after language       *)
(* detection and tokenization; file_size, char_count and line_count are    *)
(* computed after the read and before language detection; the sentiment    *)
(* engine runs after tokenization; after a failed read no component        *)
(* executes.                                                               *)
C10_CountsAfterTokenizer ==
    /\ \A out \in {"word_count", "word_freq"} :
          Before("detect_language", out) /\ Before("tokenize_text", out)
    /\ \A out \in {"file_size", "char_count", "line_count"} :
          Before("read", out) /\ Before(out, "detect_language")
    /\ Before("detect_language", "tokenize_text")
    /\ Before("tokenize_text", "analyze_sentiment")
    /\ ReadFailed => trace = <<>>

C10_Witness ==
    /\ pc = "return"
    /\ Len(trace) = 9

====
